---- MODULE Spec2Model ----
(***************************************************************************)
(* Model of src/streamlit_app.py, the support-ticket dashboard.            *)
(*                                                                         *)
(* A Streamlit script is re-run from top to bottom on every user           *)
(* interaction; only st.session_state and the widgets' values survive      *)
(* between runs.  One action of this model is one interaction together     *)
(* with the whole run of the script it triggers.  The file holds two      *)
(* revisions of the app one after the other; the model follows the later  *)
(* one (lines 175-347), which has the filter and the export.  The seed    *)
(* block, the form and the data editor of the first revision (lines       *)
(* 1-172) work the same way on fewer columns.                              *)
(*                                                                         *)
(* Text is a sequence of one-character strings, so that searching,         *)
(* comparing and parsing text are computed as the code computes them.      *)
(***************************************************************************)
EXTENDS Integers, Sequences, FiniteSets, TLC

VARIABLES
    session_state,      \* st.session_state: no key, or the key "df"
    np_out,             \* what numpy's generator yields after np.random.seed(42)
    form,               \* values of the widgets of add_ticket_form
    submitted,          \* st.form_submit_button's value in the last run
    df_new,             \* the one-row frame of the ticket made in the last run
    status_filter,      \* widget values of the filter expander
    priority_filter,
    assigned_filter,
    search_query,
    editor_state,       \* st.data_editor's pending cell edits
    filtered_df,        \* results of the last run of the script
    edited_df,
    num_open_tickets,
    avg_response_time,
    avg_resolution_time,
    csv,
    submissions,        \* history: runs with submitted = True so far
    seed_runs,          \* history: runs of the seed block so far
    other_state         \* st.session_state of a second session (SpecSeed)

vars == <<session_state, np_out, form, submitted, df_new, status_filter,
          priority_filter, assigned_filter, search_query, editor_state,
          filtered_df, edited_df, num_open_tickets, avg_response_time,
          avg_resolution_time, csv, submissions, seed_runs, other_state>>

(***************************************************************************)
(* Bounds.  The source seeds 100 tickets numbered 1100 down to 1001; the   *)
(* model seeds SeedCount tickets numbered SeedTopId downwards, so that the *)
(* step from d-digit to (d+1)-digit ticket numbers lies within reach.      *)
(***************************************************************************)
SeedCount == 2
SeedTopId == 9
MaxSubmits == 2
MaxEdits == 1
MaxDayOffset == 2

(***************************************************************************)
(* Text                                                                    *)
(***************************************************************************)
Upper == <<"A","B","C","D","E","F","G","H","I","J","K","L","M",
           "N","O","P","Q","R","S","T","U","V","W","X","Y","Z">>
Lower == <<"a","b","c","d","e","f","g","h","i","j","k","l","m",
           "n","o","p","q","r","s","t","u","v","w","x","y","z">>
DigitChars == <<"0","1","2","3","4","5","6","7","8","9">>

\* Code-point order of the characters ticket ids are made of.
CodeOrder == <<"-">> \o DigitChars \o Upper

OrdOf == [c \in {CodeOrder[i] : i \in 1..Len(CodeOrder)} |->
              CHOOSE i \in 1..Len(CodeOrder) : CodeOrder[i] = c]

Ord(c) == OrdOf[c]

\* Python's str ordering: the first differing character decides, and a
\* proper prefix is smaller.
StrLess(a, b) ==
    \E i \in 1..Len(b) :
        /\ \A j \in 1..(i - 1) : j <= Len(a) /\ a[j] = b[j]
        /\ \/ i = Len(a) + 1
           \/ i <= Len(a) /\ Ord(a[i]) < Ord(b[i])

\* Python's max over an iterable of str: the first greatest item.
RECURSIVE StrMaxFrom(_, _, _)
StrMaxFrom(items, i, best) ==
    IF i > Len(items) THEN best
    ELSE StrMaxFrom(items, i + 1, IF StrLess(best, items[i]) THEN items[i] ELSE best)

StrMax(items) == StrMaxFrom(items, 2, items[1])

\* str(n) for a natural number n.
RECURSIVE IntToStr(_)
IntToStr(n) ==
    IF n < 10 THEN <<DigitChars[n + 1]>>
    ELSE IntToStr(n \div 10) \o <<DigitChars[(n % 10) + 1]>>

DigitVal(c) == (CHOOSE i \in 1..10 : DigitChars[i] = c) - 1

\* int(s) for a string of decimal digits.
RECURSIVE StrToInt(_)
StrToInt(s) ==
    IF Len(s) = 0 THEN 0
    ELSE 10 * StrToInt(SubSeq(s, 1, Len(s) - 1)) + DigitVal(s[Len(s)])

TicketPrefix == <<"T","I","C","K","E","T","-">>

\* f"TICKET-{i}"
FormatId(i) == TicketPrefix \o IntToStr(i)

\* id.split("-")[1]; ticket ids hold exactly one "-".
SplitDash1(id) ==
    LET k == CHOOSE i \in 1..Len(id) : id[i] = "-"
    IN  SubSeq(id, k + 1, Len(id))

\* str.lower() of one character, tabulated for the upper-case letters.
LowerOf == [c \in {Upper[i] : i \in 1..26} |-> Lower[CHOOSE i \in 1..26 : Upper[i] = c]]

ToLower(c) == IF c \in DOMAIN LowerOf THEN LowerOf[c] ELSE c


\* re.search(pat, s, re.IGNORECASE) for patterns made of literal characters
\* and ".", which matches any character but a newline.
RegexSearch(pat, s) ==
    \E i \in 1..(Len(s) - Len(pat) + 1) :
        \A j \in 1..Len(pat) :
            \/ pat[j] = "." /\ s[i + j - 1] # "\n"
            \/ pat[j] # "." /\ ToLower(pat[j]) = ToLower(s[i + j - 1])

(***************************************************************************)
(* The fixed option lists of the widgets and of the seed block             *)
(***************************************************************************)
Statuses == {"Open", "In Progress", "Closed"}
Priorities == {"High", "Medium", "Low"}
TeamMembers == {"John Doe", "Jane Smith", "Alex Brown", "Chris White"}

\* Two of the twenty issue_descriptions.
LoginProblems == <<"L","o","g","i","n"," ","p","r","o","b","l","e","m","s">>
BackupFailure == <<"B","a","c","k","u","p"," ","f","a","i","l","u","r","e">>

\* datetime.date(2023, 6, 1) + datetime.timedelta(days = k), for the k < 30
\* that stay inside June.
SeedDate(k) == [type |-> "date", year |-> 2023, month |-> 6, day |-> 1 + k]

\* random.randint(0, 182), scaled: the offsets 0..MaxDayOffset.
DayOffsets == 0..MaxDayOffset

\* The clock values datetime.datetime.now() is drawn from here.
Clock == {[year |-> 2024, month |-> 7, day |-> 15]}

\* now.strftime("%Y-%m-%d"): a str, its fields in the order year, month, day.
Strftime(now) == [type |-> "str", text |-> <<now.year, now.month, now.day>>]

\* Rows of the columns numpy draws (np.random.choice, np.random.randint).
SampleRows ==
    << [Issue |-> LoginProblems, Status |-> "Open", Priority |-> "High",
        Assigned_To |-> "John Doe", Response_Time |-> 1, Resolution_Time |-> 10],
       [Issue |-> BackupFailure, Status |-> "Closed", Priority |-> "Low",
        Assigned_To |-> "Jane Smith", Response_Time |-> 11, Resolution_Time |-> 71],
       [Issue |-> LoginProblems, Status |-> "In Progress", Priority |-> "Medium",
        Assigned_To |-> "Alex Brown", Response_Time |-> 5, Resolution_Time |-> 40] >>

\* numpy's generator is seeded with 42 before every draw, so what it yields
\* is one fixed table; which one is not computed here, it is one of these.
NpOutputs ==
    { [i \in 1..SeedCount |-> SampleRows[((i + s) % Len(SampleRows)) + 1]] : s \in 0..1 }

(***************************************************************************)
(* The seed block                                                          *)
(***************************************************************************)
\* range(1100, 1000, -1), scaled: SeedTopId down to SeedTopId - SeedCount + 1.
SeedIds == [i \in 1..SeedCount |-> SeedTopId - (i - 1)]

\* pd.DataFrame(data): the ID column formatted from the range, the numpy
\* columns from the seeded generator, the dates from the random module.
Seed(np, offsets) ==
    [i \in 1..SeedCount |->
        [ID |-> FormatId(SeedIds[i]),
         Issue |-> np[i].Issue,
         Status |-> np[i].Status,
         Priority |-> np[i].Priority,
         Date_Submitted |-> SeedDate(offsets[i]),
         Assigned_To |-> np[i].Assigned_To,
         Response_Time |-> np[i].Response_Time,
         Resolution_Time |-> np[i].Resolution_Time]]

NoState == [k \in {} |-> <<>>]

\* A seed block that is not guarded by the session state.
SeedOnEveryRun(ss) == TRUE

\* if "df" not in st.session_state
SeedNeeded(ss) == "df" \notin DOMAIN ss

SeedIfAbsent(ss, np, offsets) ==
    IF SeedNeeded(ss) THEN [df |-> Seed(np, offsets)] ELSE ss

\* Every sequence of offsets the random module can yield for the rows.
AllOffsetDraws == [1..SeedCount -> DayOffsets]

\* Two of them: every row on the first day, and rows on different days.
SampleDraws == { [i \in 1..SeedCount |-> (i * k) % (MaxDayOffset + 1)] : k \in 0..1 }

\* random.randint is called only when the seed block runs.
OffsetDraws(ss) ==
    IF SeedNeeded(ss) THEN SampleDraws ELSE {[i \in 1..SeedCount |-> 0]}

(***************************************************************************)
(* Adding a ticket                                                         *)
(***************************************************************************)
Column(df, c) == [i \in 1..Len(df) |-> df[i][c]]

\* int(max(st.session_state.df.ID).split("-")[1])
RecentTicketNumber(df) == StrToInt(SplitDash1(StrMax(Column(df, "ID"))))

NewTicket(df, fm, today) ==
    [ID |-> FormatId(RecentTicketNumber(df) + 1),
     Issue |-> fm.issue,
     Status |-> "Open",
     Priority |-> fm.priority,
     Date_Submitted |-> today,
     Assigned_To |-> fm.assigned_to,
     Response_Time |-> fm.response_time,
     Resolution_Time |-> fm.resolution_time]

\* pd.concat with its two frames swapped.
ConcatBelow(top, rest) == rest \o top

\* pd.concat([df_new, st.session_state.df], axis=0)
Concat(top, rest) == top \o rest

(***************************************************************************)
(* Filtering                                                               *)
(***************************************************************************)
\* pandas' Series.str.contains(pat, case=False): regex=True is the default.
StrContains(s, pat) == RegexSearch(pat, s)

Keep(row, sf, pf, af, sq) ==
    /\ row.Status \in sf
    /\ row.Priority \in pf
    /\ row.Assigned_To \in af
    /\ StrContains(row.Issue, sq)

RECURSIVE SelectRows(_, _, _, _, _)
SelectRows(df, sf, pf, af, sq) ==
    IF Len(df) = 0 THEN <<>>
    ELSE (IF Keep(Head(df), sf, pf, af, sq) THEN <<Head(df)>> ELSE <<>>)
         \o SelectRows(Tail(df), sf, pf, af, sq)

Filter(df, sf, pf, af, sq) == SelectRows(df, sf, pf, af, sq)

(***************************************************************************)
(* The data editor                                                         *)
(***************************************************************************)
\* disabled=["ID", "Date Submitted"]: every other column of the grid can be
\* edited, the two selectbox columns only to one of their options.
DisabledColumns == {"ID", "Date_Submitted"}

\* Cell edits a user makes here: a column and the value typed or picked.
EditInputs ==
    { [col |-> "Status", value |-> "Closed"],
      [col |-> "Priority", value |-> "Low"],
      [col |-> "Issue", value |-> <<"x">>],
      [col |-> "Assigned_To", value |-> "Chris White"] }

NoEdits == {}

\* The frame st.data_editor returns: its input with the pending edits of the
\* widget applied by row position.  The input frame itself is not touched.
Edited(df, es) ==
    [i \in 1..Len(df) |->
        [c \in DOMAIN df[i] |->
            IF \E e \in es : e.pos = i /\ e.col = c
            THEN (CHOOSE e \in es : e.pos = i /\ e.col = c).value
            ELSE df[i][c]]]

\* The widget keeps its pending edits across runs only while it is given
\* the same data; with other data it starts afresh.
KeptEdits(es, input, last_input) == IF input = last_input THEN es ELSE NoEdits

(***************************************************************************)
(* Metrics and export                                                      *)
(***************************************************************************)
RECURSIVE CountOpen(_)
CountOpen(df) ==
    IF Len(df) = 0 THEN 0
    ELSE (IF Head(df).Status = "Open" THEN 1 ELSE 0) + CountOpen(Tail(df))

RECURSIVE SumOf(_, _)
SumOf(df, c) == IF Len(df) = 0 THEN 0 ELSE Head(df)[c] + SumOf(Tail(df), c)

\* Series.mean(), kept as the fraction sum / n.
Mean(df, c) == [sum |-> SumOf(df, c), n |-> Len(df)]

Header == <<"ID", "Issue", "Status", "Priority", "Date Submitted", "Assigned To",
            "Response Time (hours)", "Resolution Time (hours)">>

\* str() of a cell of the date column: a datetime.date prints in ISO order,
\* a str prints as it is.
DateText(v) ==
    IF v.type = "date" THEN <<v.year, v.month, v.day>> ELSE v.text

CsvLine(row) ==
    <<row.ID, row.Issue, row.Status, row.Priority, DateText(row.Date_Submitted),
      row.Assigned_To, IntToStr(row.Response_Time), IntToStr(row.Resolution_Time)>>

\* df.to_csv(index=False): the header line, then one line per row in order.
ToCsv(df) == [header |-> Header, lines |-> [i \in 1..Len(df) |-> CsvLine(df[i])]]

(***************************************************************************)
(* One run of the script, step by step.  env holds what the run has        *)
(* computed so far.                                                        *)
(***************************************************************************)
StepSeed(env, np, offsets) ==
    [env EXCEPT !.session_state = SeedIfAbsent(@, np, offsets)]

\* if submitted: build df_new, show it, prepend it to the frame in the
\* session state.
StepSubmit(env, fm, today) ==
    IF env.submitted
    THEN LET new == NewTicket(env.session_state.df, fm, today)
         IN  [env EXCEPT !.df_new = <<new>>,
                         !.session_state.df = Concat(<<new>>, @)]
    ELSE env

\* A filter that narrows the frame of the session state itself.
StepFilterInPlace(env, sf, pf, af, sq) ==
    LET kept == Filter(env.session_state.df, sf, pf, af, sq)
    IN  [env EXCEPT !.filtered_df = kept, !.session_state.df = kept]

StepFilter(env, sf, pf, af, sq) ==
    [env EXCEPT !.filtered_df = Filter(env.session_state.df, sf, pf, af, sq)]

\* An editor step that stores the frame the grid returns as the session's
\* frame.
StepEditorStoreBack(env, es, last_input) ==
    LET kept == KeptEdits(es, env.filtered_df, last_input)
    IN  [env EXCEPT !.editor_state = kept,
                    !.edited_df = Edited(env.filtered_df, kept),
                    !.session_state.df = Edited(env.filtered_df, kept)]

\* edited_df = st.data_editor(filtered_df, ...)
StepEditor(env, es, last_input) ==
    LET kept == KeptEdits(es, env.filtered_df, last_input)
    IN  [env EXCEPT !.editor_state = kept,
                    !.edited_df = Edited(env.filtered_df, kept)]

StepMetrics(env) ==
    [env EXCEPT !.num_open_tickets = CountOpen(env.session_state.df),
                !.avg_response_time = Mean(env.session_state.df, "Response_Time"),
                !.avg_resolution_time = Mean(env.session_state.df, "Resolution_Time")]

StepExport(env) == [env EXCEPT !.csv = ToCsv(env.session_state.df)]

\* The steps in the order of the script.  Each step's result is bound as a
\* value (e \in {...}) before the next step reads it.
Script(ss, sub, fm, today, np, offsets, sf, pf, af, sq, es, last_input) ==
    LET env0 == [session_state |-> ss, submitted |-> sub, df_new |-> <<>>,
                 filtered_df |-> <<>>, edited_df |-> <<>>, editor_state |-> NoEdits,
                 num_open_tickets |-> 0,
                 avg_response_time |-> [sum |-> 0, n |-> 0],
                 avg_resolution_time |-> [sum |-> 0, n |-> 0],
                 csv |-> <<>>]
        seeded == {StepSeed(env0, np, offsets)}
        added == {StepSubmit(e, fm, today) : e \in seeded}
        filtered == {StepFilter(e, sf, pf, af, sq) : e \in added}
        edited == {StepEditor(e, es, last_input) : e \in filtered}
        measured == {StepMetrics(e) : e \in edited}
        exported == {StepExport(e) : e \in measured}
    IN  CHOOSE e \in exported : TRUE

(***************************************************************************)
(* Inputs of the interactions                                              *)
(***************************************************************************)
FormInputs ==
    { [issue |-> <<>>, priority |-> "Medium", assigned_to |-> "John Doe",
       response_time |-> 3, resolution_time |-> 24],
      [issue |-> <<"V","P","N">>, priority |-> "Low", assigned_to |-> "Chris White",
       response_time |-> 12, resolution_time |-> 72] }

\* The widgets' defaults: empty text, the first options, sliders at 3 and 24.
FormDefaults ==
    [issue |-> <<>>, priority |-> "High", assigned_to |-> "John Doe",
     response_time |-> 3, resolution_time |-> 24]

StatusFilterInputs == {Statuses, {"Open"}}
PriorityFilterInputs == {Priorities, {"High"}}
AssignedFilterInputs == {TeamMembers, {"John Doe"}}
SearchInputs == { <<>>, <<"L","O","G">>, <<"l",".","g">> }

(***************************************************************************)
(* The state machine                                                       *)
(***************************************************************************)
Init ==
    /\ session_state = NoState
    /\ np_out \in NpOutputs
    /\ form = FormDefaults
    /\ submitted = FALSE
    /\ df_new = <<>>
    /\ status_filter = Statuses
    /\ priority_filter = Priorities
    /\ assigned_filter = TeamMembers
    /\ search_query = <<>>
    /\ editor_state = NoEdits
    /\ filtered_df = <<>>
    /\ edited_df = <<>>
    /\ num_open_tickets = 0
    /\ avg_response_time = [sum |-> 0, n |-> 0]
    /\ avg_resolution_time = [sum |-> 0, n |-> 0]
    /\ csv = <<>>
    /\ submissions = 0
    /\ seed_runs = 0
    /\ other_state = NoState

\* The script has run in this session: its page is on screen.
Rendered == "df" \in DOMAIN session_state

\* One run of the script with the given form button, widget values and
\* editor edits; every variable of the session is set from its result.
Rerun(sub, fm, today, sf, pf, af, sq, es) ==
    \E offsets \in OffsetDraws(session_state) :
        \E env \in {Script(session_state, sub, fm, today, np_out, offsets,
                           sf, pf, af, sq, es, filtered_df)} :
            /\ session_state' = env.session_state
            /\ form' = fm
            /\ submitted' = env.submitted
            /\ df_new' = env.df_new
            /\ status_filter' = sf
            /\ priority_filter' = pf
            /\ assigned_filter' = af
            /\ search_query' = sq
            /\ editor_state' = env.editor_state
            /\ filtered_df' = env.filtered_df
            /\ edited_df' = env.edited_df
            /\ num_open_tickets' = env.num_open_tickets
            /\ avg_response_time' = env.avg_response_time
            /\ avg_resolution_time' = env.avg_resolution_time
            /\ csv' = env.csv
            /\ submissions' = submissions + (IF sub THEN 1 ELSE 0)
            /\ seed_runs' = seed_runs + (IF SeedNeeded(session_state) THEN 1 ELSE 0)
            /\ UNCHANGED <<np_out, other_state>>

\* The first run of a session: no widget has been touched.
OpenSession ==
    /\ ~Rendered
    /\ Rerun(FALSE, form, Strftime(CHOOSE now \in Clock : TRUE),
             status_filter, priority_filter, assigned_filter, search_query,
             editor_state)

\* The user fills the form and presses Submit.
Submit ==
    /\ Rendered
    /\ submissions < MaxSubmits
    /\ \E fm \in FormInputs, now \in Clock :
           Rerun(TRUE, fm, Strftime(now), status_filter, priority_filter,
                 assigned_filter, search_query, editor_state)

ChangeStatusFilter ==
    /\ Rendered
    /\ \E v \in StatusFilterInputs \ {status_filter} :
           Rerun(FALSE, form, Strftime(CHOOSE now \in Clock : TRUE),
                 v, priority_filter, assigned_filter, search_query, editor_state)

ChangePriorityFilter ==
    /\ Rendered
    /\ \E v \in PriorityFilterInputs \ {priority_filter} :
           Rerun(FALSE, form, Strftime(CHOOSE now \in Clock : TRUE),
                 status_filter, v, assigned_filter, search_query, editor_state)

ChangeAssignedFilter ==
    /\ Rendered
    /\ \E v \in AssignedFilterInputs \ {assigned_filter} :
           Rerun(FALSE, form, Strftime(CHOOSE now \in Clock : TRUE),
                 status_filter, priority_filter, v, search_query, editor_state)

ChangeSearch ==
    /\ Rendered
    /\ \E v \in SearchInputs \ {search_query} :
           Rerun(FALSE, form, Strftime(CHOOSE now \in Clock : TRUE),
                 status_filter, priority_filter, assigned_filter, v, editor_state)

\* The user changes one cell of the grid, which shows edited_df.
EditCell ==
    /\ Rendered
    /\ \E pos \in 1..Len(edited_df), e \in EditInputs :
           /\ e.col \notin DisabledColumns
           /\ edited_df[pos][e.col] # e.value
           /\ LET others == {x \in editor_state : ~(x.pos = pos /\ x.col = e.col)}
              IN  /\ Cardinality(others) < MaxEdits
                  /\ Rerun(FALSE, form, Strftime(CHOOSE now \in Clock : TRUE),
                           status_filter, priority_filter, assigned_filter,
                           search_query,
                           others \cup {[pos |-> pos, col |-> e.col, value |-> e.value]})

Next ==
    \/ OpenSession
    \/ Submit
    \/ ChangeStatusFilter
    \/ ChangePriorityFilter
    \/ ChangeAssignedFilter
    \/ ChangeSearch
    \/ EditCell

Spec == Init /\ [][Next]_vars

(***************************************************************************)
(* Two sessions running the seed block.  Each session has its own          *)
(* st.session_state; numpy's generator is re-seeded with 42 in each, the   *)
(* random module is seeded by nothing in the script.                       *)
(***************************************************************************)
SeedHere ==
    /\ SeedNeeded(session_state)
    /\ \E offsets \in AllOffsetDraws :
           session_state' = SeedIfAbsent(session_state, np_out, offsets)
    /\ UNCHANGED <<np_out, form, submitted, df_new, status_filter, priority_filter,
                   assigned_filter, search_query, editor_state, filtered_df,
                   edited_df, num_open_tickets, avg_response_time,
                   avg_resolution_time, csv, submissions, seed_runs, other_state>>

SeedOther ==
    /\ SeedNeeded(other_state)
    /\ \E offsets \in AllOffsetDraws :
           other_state' = SeedIfAbsent(other_state, np_out, offsets)
    /\ UNCHANGED <<session_state, np_out, form, submitted, df_new, status_filter,
                   priority_filter, assigned_filter, search_query, editor_state,
                   filtered_df, edited_df, num_open_tickets, avg_response_time,
                   avg_resolution_time, csv, submissions, seed_runs>>

NextSeed ==
    \/ SeedHere
    \/ SeedOther

SpecSeed == Init /\ [][NextSeed]_vars

(***************************************************************************)
(* Properties                                                              *)
(***************************************************************************)
df == session_state.df

\* The number a ticket id ends in.
Suffix(row) == StrToInt(SplitDash1(row.ID))

\* The greatest such number in a frame.
MaxSuffix(frame) ==
    CHOOSE n \in {Suffix(frame[i]) : i \in 1..Len(frame)} :
        \A i \in 1..Len(frame) : Suffix(frame[i]) <= n

\* C1: a run that adds a ticket gives it the number one above the greatest
\* number among the ids the store held before the run, and the store grows
\* by exactly one row.
C1_NextIdIsMaxPlusOne ==
    [][submitted' =>
          /\ Suffix(df_new'[1]) = MaxSuffix(session_state.df) + 1
          /\ Len(session_state'.df) = Len(session_state.df) + 1]_vars

\* C2: no two tickets of the store share an id, and each added ticket (the
\* added ones are the top rows, newest first) has a number above that of
\* every ticket made before it.
C2_IdsUniqueAndIncreasing ==
    Rendered =>
        /\ \A i, j \in 1..Len(df) : i # j => df[i].ID # df[j].ID
        /\ \A i, j \in 1..Len(df) :
               (i <= submissions /\ i < j) => Suffix(df[i]) > Suffix(df[j])

Columns == {"ID", "Issue", "Status", "Priority", "Date_Submitted", "Assigned_To",
            "Response_Time", "Resolution_Time"}

\* The rows of a frame that carry the given id.
RowsWithId(frame, id) == {i \in 1..Len(frame) : frame[i].ID = id}

\* C3: while the grid holds an edit of a Status or Priority cell, the store
\* holds the edited value for the ticket shown in that row of the grid.
C3_StoreHoldsEdits ==
    Rendered =>
        \A e \in editor_state :
            e.col \in {"Status", "Priority"} =>
                \A i \in RowsWithId(df, filtered_df[e.pos].ID) : df[i][e.col] = e.value

\* A run whose grid came back with a new cell edit.
EditStep == editor_state' # editor_state /\ editor_state' # NoEdits

\* C4: a run that takes a cell edit leaves every column but Status and
\* Priority as it was in every row of the store, and leaves the rows whose
\* id is not in the edited view as they were in all columns.
C4_EditFrame ==
    [][EditStep =>
          /\ Len(session_state'.df) = Len(session_state.df)
          /\ \A i \in 1..Len(session_state.df) :
                 /\ \A c \in Columns \ {"Status", "Priority"} :
                        session_state'.df[i][c] = session_state.df[i][c]
                 /\ RowsWithId(edited_df', session_state.df[i].ID) = {}
                        => session_state'.df[i] = session_state.df[i]]_vars

\* An edit is pending in a grid that shows only a part of the store.
C4_Witness ==
    /\ Rendered
    /\ editor_state # NoEdits
    /\ Len(edited_df) < Len(df)

\* s holds pat as a substring, letter case aside, every character of pat
\* standing for itself.
LiteralContains(s, pat) ==
    \E i \in 1..(Len(s) - Len(pat) + 1) :
        \A j \in 1..Len(pat) : ToLower(pat[j]) = ToLower(s[i + j - 1])

Matches(row) ==
    /\ row.Status \in status_filter
    /\ row.Priority \in priority_filter
    /\ row.Assigned_To \in assigned_filter
    /\ LiteralContains(row.Issue, search_query)

\* C5: the filtered view is exactly the rows of the store, in store order,
\* whose status, priority and assignee are among the selected ones and whose
\* issue holds the search text as a literal substring, letter case aside.
C5_FilterExact ==
    Rendered =>
        /\ \A j \in 1..Len(filtered_df) : Matches(filtered_df[j])
        /\ Len(filtered_df) = Cardinality({i \in 1..Len(df) : Matches(df[i])})
        /\ \A j \in 1..Len(filtered_df) : \E i \in 1..Len(df) : df[i] = filtered_df[j]

\* C6: two sessions that have both run the seed block hold the same table.
C6_SeedDeterministic ==
    ("df" \in DOMAIN session_state /\ "df" \in DOMAIN other_state)
        => session_state.df = other_state.df

\* C7: a run that adds a ticket puts it on top of the store, Open and with
\* the priority picked in the form, leaves the rows the store had below it
\* in their order and unchanged, and shows an open-tickets count one above
\* the count the run before showed.
C7_AddOnTop ==
    [][submitted' =>
          /\ Len(session_state'.df) = Len(session_state.df) + 1
          /\ session_state'.df[1] = df_new'[1]
          /\ session_state'.df[1].Status = "Open"
          /\ session_state'.df[1].Priority = form'.priority
          /\ \A i \in 1..Len(session_state.df) :
                 session_state'.df[i + 1] = session_state.df[i]
          /\ num_open_tickets' = num_open_tickets + 1]_vars

\* A second ticket has just been added on top of an earlier one.
C7_Witness ==
    /\ submitted
    /\ submissions = 2
    /\ df[1] = df_new[1]
    /\ form.priority = "Low"

\* Reading the exported text back, the date column read as one type of
\* value: a date for every line, or the text for every line.
DateColumnTypes == {"date", "str"}

ParseDate(t, text) ==
    IF t = "date"
    THEN [type |-> "date", year |-> text[1], month |-> text[2], day |-> text[3]]
    ELSE [type |-> "str", text |-> text]

ParseLine(t, line) ==
    [ID |-> line[1], Issue |-> line[2], Status |-> line[3], Priority |-> line[4],
     Date_Submitted |-> ParseDate(t, line[5]), Assigned_To |-> line[6],
     Response_Time |-> StrToInt(line[7]), Resolution_Time |-> StrToInt(line[8])]

ParseCsv(t, text) == [i \in 1..Len(text.lines) |-> ParseLine(t, text.lines[i])]

\* C8: the export holds one line per row of the store whatever the filter
\* is, and read back it gives the rows of the store, in order, with the
\* values the store holds.
C8_ExportRoundTrip ==
    Rendered =>
        /\ Len(csv.lines) = Len(df)
        /\ \E t \in DateColumnTypes : ParseCsv(t, csv) = df

\* A run in which a filter widget has a new value.
FilterStep ==
    <<status_filter, priority_filter, assigned_filter, search_query>>'
        # <<status_filter, priority_filter, assigned_filter, search_query>>

C10_SeedOnce ==
    [][/\ Rendered' => seed_runs' = 1 /\ Len(session_state'.df) = SeedCount + submissions'
       /\ ~Rendered' => seed_runs' = 0 /\ submissions' = 0
       /\ Rendered =>
              /\ Rendered'
              /\ \A i \in 1..Len(session_state.df) :
                     \E j \in 1..Len(session_state'.df) :
                         session_state'.df[j] = session_state.df[i]]_vars

\* Runs came after the last submission, and the added tickets are there.
C10_Witness ==
    /\ Rendered
    /\ submissions = MaxSubmits
    /\ ~submitted
    /\ Len(df) > SeedCount

====
